---- MODULE Spec2Model ----
(***************************************************************************)
(* Kaleidoscope front end (src/kaleidoscope): lexer, recursive-descent /   *)
(* precedence-climbing parser, AST lowering against the module's function  *)
(* table, and the top-level driver loop.                                   *)
(*                                                                         *)
(* Texts (identifier names, operator characters) are TLA+ strings; the     *)
(* character stream read by getchar() is a sequence of one-character       *)
(* strings.  A token is a record [kind, text, num]: kind is one of the     *)
(* enum Token members or "char" for a character returned as itself; text   *)
(* is IdentifierStr (or the character); num is NumVal.                     *)
(***************************************************************************)
EXTENDS Integers, Sequences, FiniteSets, TLC

VARIABLES
    chars,        \* the characters of stdin (lexer specifications)
    input,        \* the tokens gettok() returns, in order, before tok_eof
    pos,          \* index in input of CurTok; Len(input)+1 is tok_eof
    TheModule,    \* the functions registered in the module
    NamedValues,  \* the names bound to a non-null Value* in NamedValues
    last,         \* what the last operation did (observation only)
    running       \* TRUE until MainLoop returns

vars == <<chars, input, pos, TheModule, NamedValues, last, running>>

(***************************************************************************)
(* Lexer                                                                   *)
(***************************************************************************)
EOFChar == "EOF"

LowerCase == {"a","b","c","d","e","f","g","h","i","j","k","l","m",
              "n","o","p","q","r","s","t","u","v","w","x","y","z"}
UpperCase == {"A","B","C","D","E","F","G","H","I","J","K","L","M",
              "N","O","P","Q","R","S","T","U","V","W","X","Y","Z"}
Digits == {"0","1","2","3","4","5","6","7","8","9"}

isspace(c) == c \in {" ", "\t", "\n", "\r"}
isalpha(c) == c \in LowerCase \cup UpperCase
isdigit(c) == c \in Digits
isalnum(c) == isalpha(c) \/ isdigit(c)

DigitVal(c) ==
    CASE c = "0" -> 0 [] c = "1" -> 1 [] c = "2" -> 2 [] c = "3" -> 3
      [] c = "4" -> 4 [] c = "5" -> 5 [] c = "6" -> 6 [] c = "7" -> 7
      [] c = "8" -> 8 [] c = "9" -> 9

\* The token records.
TokEof == [kind |-> "tok_eof", text |-> "", num |-> <<0, 0>>]
TokDef == [kind |-> "tok_def", text |-> "def", num |-> <<0, 0>>]
TokExtern == [kind |-> "tok_extern", text |-> "extern", num |-> <<0, 0>>]
TokIdentifier(s) == [kind |-> "tok_identifier", text |-> s, num |-> <<0, 0>>]
TokNumber(v) == [kind |-> "tok_number", text |-> "", num |-> v]
TokChar(c) == [kind |-> "char", text |-> c, num |-> <<0, 0>>]

\* getchar(): the character at index p of the stream, EOF past its end.  The
\* lexer state is [p |-> index of the next character, LastChar |-> lookahead].
getchar(cs, p) == IF p > Len(cs) THEN EOFChar ELSE cs[p]
NextIndex(cs, p) == IF p > Len(cs) THEN p ELSE p + 1
ReadChar(cs, lx) == [p |-> NextIndex(cs, lx.p), LastChar |-> getchar(cs, lx.p)]

\* static int LastChar = ' ' before the first call.
LexInit == [p |-> 1, LastChar |-> " "]

\* strtod on a string of digits and '.': the value of the longest prefix with
\* at most one '.', as <<m, e>> = m * 10^(-e) with no trailing zero digit in
\* the fraction.
RECURSIVE StrtodScan(_, _, _, _, _)
StrtodScan(s, i, m, e, dot) ==
    IF i > Len(s) THEN <<m, e>>
    ELSE IF s[i] = "."
         THEN IF dot THEN <<m, e>> ELSE StrtodScan(s, i + 1, m, e, TRUE)
         ELSE StrtodScan(s, i + 1, 10 * m + DigitVal(s[i]),
                         IF dot THEN e + 1 ELSE e, dot)

RECURSIVE Normalize(_)
Normalize(v) ==
    IF v[2] > 0 /\ v[1] % 10 = 0 THEN Normalize(<<v[1] \div 10, v[2] - 1>>)
    ELSE v

strtod(s) == Normalize(StrtodScan(s, 1, 0, 0, FALSE))

\* while (isspace(LastChar)) LastChar = getchar();
RECURSIVE SkipSpace(_, _)
SkipSpace(cs, lx) ==
    IF isspace(lx.LastChar) THEN SkipSpace(cs, ReadChar(cs, lx)) ELSE lx

\* while (isalnum((LastChar = getchar()))) IdentifierStr += LastChar;
RECURSIVE ScanIdentifier(_, _, _)
ScanIdentifier(cs, lx, str) ==
    LET nx == ReadChar(cs, lx)
    IN IF isalnum(nx.LastChar)
       THEN ScanIdentifier(cs, nx, str \o nx.LastChar)
       ELSE [lx |-> nx, str |-> str]

\* do { NumStr += LastChar; LastChar = getchar(); }
\* while (isdigit(LastChar) || LastChar == '.');
RECURSIVE ScanNumber(_, _, _)
ScanNumber(cs, lx, str) ==
    LET s1 == Append(str, lx.LastChar)
        nx == ReadChar(cs, lx)
    IN IF isdigit(nx.LastChar) \/ nx.LastChar = "."
       THEN ScanNumber(cs, nx, s1)
       ELSE [lx |-> nx, str |-> s1]

\* do LastChar = getchar();
\* while (LastChar != EOF && LastChar != '\n' && LastChar != '\r');
RECURSIVE SkipComment(_, _)
SkipComment(cs, lx) ==
    LET nx == ReadChar(cs, lx)
    IN IF nx.LastChar # EOFChar /\ nx.LastChar # "\n" /\ nx.LastChar # "\r"
       THEN SkipComment(cs, nx)
       ELSE nx

\* gettok(): the next token and the lexer state after it.
RECURSIVE gettok(_, _)
gettok(cs, lx0) ==
    LET lx == SkipSpace(cs, lx0)
    IN IF isalpha(lx.LastChar)
       THEN LET r == ScanIdentifier(cs, lx, lx.LastChar)
            IN [lx |-> r.lx,
                tok |-> IF r.str = "def" THEN TokDef
                        ELSE IF r.str = "extern" THEN TokExtern
                        ELSE TokIdentifier(r.str)]
       ELSE IF isdigit(lx.LastChar) \/ lx.LastChar = "."
       THEN LET r == ScanNumber(cs, lx, <<>>)
            IN [lx |-> r.lx, tok |-> TokNumber(strtod(r.str))]
       ELSE IF lx.LastChar = "#" /\ SkipComment(cs, lx).LastChar # EOFChar
       THEN gettok(cs, SkipComment(cs, lx))
       ELSE IF lx.LastChar = "#" \/ lx.LastChar = EOFChar
       THEN [lx |-> IF lx.LastChar = "#" THEN SkipComment(cs, lx) ELSE lx,
             tok |-> TokEof]
       ELSE [lx |-> ReadChar(cs, lx), tok |-> TokChar(lx.LastChar)]

\* The tokens successive getNextToken() calls return before the first tok_eof.
RECURSIVE LexFrom(_, _)
LexFrom(cs, lx) ==
    LET r == gettok(cs, lx)
    IN IF r.tok = TokEof THEN <<>> ELSE <<r.tok>> \o LexFrom(cs, r.lx)

Lex(cs) == LexFrom(cs, LexInit)

(***************************************************************************)
(* Token buffer: CurTok is the token at index p of the token sequence.     *)
(***************************************************************************)
CurTok(toks, p) == IF p > Len(toks) THEN TokEof ELSE toks[p]

\* getNextToken(): CurTok = gettok(); gettok keeps returning tok_eof once
\* the stream is exhausted.
getNextToken(toks, p) == IF p > Len(toks) THEN p ELSE p + 1

IsChar(t, c) == t.kind = "char" /\ t.text = c

(***************************************************************************)
(* AST.  Expression nodes share one record shape: node is the class, name  *)
(* the variable name, callee or operator character, num the literal, kids  *)
(* the owned children (LHS, RHS or the call arguments).                    *)
(***************************************************************************)
NumberExprAST(v) == [node |-> "Number", name |-> "", num |-> v, kids |-> <<>>]
VariableExprAST(n) ==
    [node |-> "Variable", name |-> n, num |-> <<0, 0>>, kids |-> <<>>]
BinaryExprAST(op, l, r) ==
    [node |-> "Binary", name |-> op, num |-> <<0, 0>>, kids |-> <<l, r>>]
CallExprAST(callee, args) ==
    [node |-> "Call", name |-> callee, num |-> <<0, 0>>, kids |-> args]
PrototypeAST(n, args) == [name |-> n, args |-> args]
FunctionAST(proto, body) == [proto |-> proto, body |-> body]

\* nullptr in place of a node.
NullAST == [node |-> "null", name |-> "", num |-> <<0, 0>>, kids |-> <<>>]
NullProto == [name |-> "null", args |-> <<"null">>]

(***************************************************************************)
(* Parser.  Every Parse operator takes the token sequence and the index of *)
(* CurTok and returns [ok, ast, pos, err]: ok = FALSE is the nullptr       *)
(* return, pos the index of CurTok when the function returns, err the      *)
(* message Error() printed ("" when the nullptr was only passed on).       *)
(***************************************************************************)
\* BinopPrecedence as main() fills it; operator[] gives 0 for any other key.
BinopPrecedence(c) ==
    CASE c = "<" -> 10
      [] c = "+" -> 20
      [] c = "-" -> 20
      [] c = "*" -> 40
      [] OTHER -> 0

GetTokPrecedence(tok) ==
    IF tok.kind # "char" THEN -1
    ELSE IF BinopPrecedence(tok.text) <= 0 THEN -1
    ELSE BinopPrecedence(tok.text)

Parsed(ast, p) == [ok |-> TRUE, ast |-> ast, pos |-> p, err |-> ""]
Error(str, p) == [ok |-> FALSE, ast |-> NullAST, pos |-> p, err |-> str]
\* A nullptr from a callee, returned as it is.
Null(r) == [ok |-> FALSE, ast |-> NullAST, pos |-> r.pos, err |-> r.err]

ParseNumberExpr(toks, p) ==
    Parsed(NumberExprAST(CurTok(toks, p).num), getNextToken(toks, p))

RECURSIVE ParseExpression(_, _)
RECURSIVE ParsePrimary(_, _)
RECURSIVE ParseBinOpRHS(_, _, _, _)
RECURSIVE ParseArgs(_, _, _)

ParseParenExpr(toks, p) ==
    LET V == ParseExpression(toks, getNextToken(toks, p))
    IN IF ~V.ok THEN Null(V)
       ELSE IF ~IsChar(CurTok(toks, V.pos), ")")
       THEN Error("expected ')'", V.pos)
       ELSE Parsed(V.ast, getNextToken(toks, V.pos))

\* The while (1) loop of ParseIdentifierExpr, entered with CurTok at the
\* start of an argument and Args the arguments pushed so far.
ParseArgs(toks, p, Args) ==
    LET Arg == ParseExpression(toks, p)
    IN IF ~Arg.ok THEN Null(Arg)
       ELSE IF IsChar(CurTok(toks, Arg.pos), ")")
       THEN [ok |-> TRUE, ast |-> Append(Args, Arg.ast), pos |-> Arg.pos,
             err |-> ""]
       ELSE IF ~IsChar(CurTok(toks, Arg.pos), ",")
       THEN Error("Expected ')' or ',' in argument list", Arg.pos)
       ELSE ParseArgs(toks, getNextToken(toks, Arg.pos), Append(Args, Arg.ast))

ParseIdentifierExpr(toks, p) ==
    LET IdName == CurTok(toks, p).text
        p1 == getNextToken(toks, p)
        p2 == getNextToken(toks, p1)
    IN IF ~IsChar(CurTok(toks, p1), "(")
       THEN Parsed(VariableExprAST(IdName), p1)
       ELSE IF IsChar(CurTok(toks, p2), ")")
       THEN Parsed(CallExprAST(IdName, <<>>), getNextToken(toks, p2))
       ELSE LET A == ParseArgs(toks, p2, <<>>)
            IN IF ~A.ok THEN Null(A)
               ELSE Parsed(CallExprAST(IdName, A.ast),
                           getNextToken(toks, A.pos))

ParsePrimary(toks, p) ==
    LET tok == CurTok(toks, p)
    IN IF tok.kind = "tok_identifier" THEN ParseIdentifierExpr(toks, p)
       ELSE IF tok.kind = "tok_number" THEN ParseNumberExpr(toks, p)
       ELSE IF IsChar(tok, "(") THEN ParseParenExpr(toks, p)
       ELSE Error("unknown token when expecting an expression", p)

RhsMinPrecSame(TokPrec) == TokPrec

\* The threshold ParseBinOpRHS passes on when the operator after the right
\* operand binds tighter: ParseBinOpRHS(TokPrec+1, std::move(RHS)).
RhsMinPrec(TokPrec) == TokPrec + 1

ParseBinOpRHS(ExprPrec, LHS, toks, p) ==
    LET TokPrec == GetTokPrecedence(CurTok(toks, p))
    IN IF TokPrec < ExprPrec THEN Parsed(LHS, p)
       ELSE LET BinOp == CurTok(toks, p).text
                RHS == ParsePrimary(toks, getNextToken(toks, p))
            IN IF ~RHS.ok THEN Null(RHS)
               ELSE LET NextPrec == GetTokPrecedence(CurTok(toks, RHS.pos))
                        RHS2 == IF TokPrec < NextPrec
                                THEN ParseBinOpRHS(RhsMinPrec(TokPrec),
                                                   RHS.ast, toks, RHS.pos)
                                ELSE RHS
                    IN IF ~RHS2.ok THEN Null(RHS2)
                       ELSE ParseBinOpRHS(ExprPrec,
                                BinaryExprAST(BinOp, LHS, RHS2.ast),
                                toks, RHS2.pos)

ParseExpression(toks, p) ==
    LET LHS == ParsePrimary(toks, p)
    IN IF ~LHS.ok THEN Null(LHS)
       ELSE ParseBinOpRHS(0, LHS.ast, toks, LHS.pos)

RECURSIVE ScanArgNames(_, _, _)

\* A parameter scan that also steps over ',' between the identifiers.
RECURSIVE ScanArgNamesSkipComma(_, _, _)
ScanArgNamesSkipComma(toks, p, ArgNames) ==
    LET p1 == getNextToken(toks, p)
    IN IF CurTok(toks, p1).kind = "tok_identifier"
       THEN ScanArgNamesSkipComma(toks, p1,
                                  Append(ArgNames, CurTok(toks, p1).text))
       ELSE IF IsChar(CurTok(toks, p1), ",")
       THEN ScanArgNamesSkipComma(toks, p1, ArgNames)
       ELSE [pos |-> p1, ArgNames |-> ArgNames]

\* while (getNextToken() == tok_identifier) ArgNames.push_back(IdentifierStr);
\* entered with CurTok at the token before the next candidate.
ScanArgNames(toks, p, ArgNames) ==
    LET p1 == getNextToken(toks, p)
    IN IF CurTok(toks, p1).kind = "tok_identifier"
       THEN ScanArgNames(toks, p1, Append(ArgNames, CurTok(toks, p1).text))
       ELSE [pos |-> p1, ArgNames |-> ArgNames]

ProtoParsed(proto, p) == [ok |-> TRUE, ast |-> proto, pos |-> p, err |-> ""]
ErrorP(str, p) == [ok |-> FALSE, ast |-> NullProto, pos |-> p, err |-> str]

ParsePrototype(toks, p) ==
    IF CurTok(toks, p).kind # "tok_identifier"
    THEN ErrorP("Expected function name in prototype", p)
    ELSE LET FnName == CurTok(toks, p).text
             p1 == getNextToken(toks, p)
         IN IF ~IsChar(CurTok(toks, p1), "(")
            THEN ErrorP("Expected '(' in prototype", p1)
            ELSE LET A == ScanArgNames(toks, p1, <<>>)
                 IN IF ~IsChar(CurTok(toks, A.pos), ")")
                    THEN ErrorP("Expected ')' in prototype", A.pos)
                    ELSE ProtoParsed(PrototypeAST(FnName, A.ArgNames),
                                     getNextToken(toks, A.pos))

NullFunction == FunctionAST(NullProto, NullAST)

ParseDefinition(toks, p) ==
    LET Proto == ParsePrototype(toks, getNextToken(toks, p))
    IN IF ~Proto.ok
       THEN [ok |-> FALSE, ast |-> NullFunction, pos |-> Proto.pos,
             err |-> Proto.err]
       ELSE LET E == ParseExpression(toks, Proto.pos)
            IN IF E.ok
               THEN [ok |-> TRUE, ast |-> FunctionAST(Proto.ast, E.ast),
                     pos |-> E.pos, err |-> ""]
               ELSE [ok |-> FALSE, ast |-> NullFunction, pos |-> E.pos,
                     err |-> E.err]

ParseTopLevelExpr(toks, p) ==
    LET E == ParseExpression(toks, p)
    IN IF E.ok
       THEN [ok |-> TRUE,
             ast |-> FunctionAST(PrototypeAST("", <<>>), E.ast),
             pos |-> E.pos, err |-> ""]
       ELSE [ok |-> FALSE, ast |-> NullFunction, pos |-> E.pos,
             err |-> E.err]

ParseExtern(toks, p) == ParsePrototype(toks, getNextToken(toks, p))

(***************************************************************************)
(* Expression parsing on its own: ParseExpression applied to every         *)
(* well-formed operator expression of at most MaxExprLen tokens.           *)
(***************************************************************************)
MaxExprLen == 7

Num1 == TokNumber(<<1, 0>>)
IdX == TokIdentifier("x")
OperandToks == {Num1, IdX}
BinOps == {"<", "+", "-", "*"}

\* The token sequences of exactly n tokens derived from
\*   E ::= P | E op P      P ::= operand | ( E )
RECURSIVE WFExpr(_)
RECURSIVE WFPrimary(_)
WFPrimary(n) ==
    IF n = 1 THEN {<<t>> : t \in OperandToks}
    ELSE IF n < 3 THEN {}
    ELSE {<<TokChar("(")>> \o e \o <<TokChar(")")>> : e \in WFExpr(n - 2)}

WFExpr(n) ==
    IF n < 1 THEN {}
    ELSE WFPrimary(n) \cup
         UNION {{e \o <<TokChar(op)>> \o q :
                    e \in WFExpr(n - 1 - k), op \in BinOps, q \in WFPrimary(k)}
                : k \in 1..(n - 2)}

WFExprs == UNION {WFExpr(n) : n \in 1..MaxExprLen}

NoOp == [op |-> "none"]

InitExpr ==
    /\ chars = <<>>
    /\ input \in WFExprs
    /\ pos = 1
    /\ TheModule = {}
    /\ NamedValues = {}
    /\ last = NoOp
    /\ running = TRUE

\* auto E = ParseExpression();
ParseExpressionStep ==
    /\ running
    /\ LET r == ParseExpression(input, pos)
       IN /\ last' = [op |-> "ParseExpression", result |-> r]
          /\ pos' = r.pos
    /\ running' = FALSE
    /\ UNCHANGED <<chars, input, TheModule, NamedValues>>

NextExpr == ParseExpressionStep

SpecExpr == InitExpr /\ [][NextExpr]_vars

\* The reference parser: one grammar level per precedence class, loosest
\* first, each level a left-to-right fold over the next tighter level.
RefLevels == <<{"<"}, {"+", "-"}, {"*"}>>

RECURSIVE RefLevel(_, _, _)
RECURSIVE RefFold(_, _, _, _)
RefPrimary(toks, p) ==
    LET tok == CurTok(toks, p)
    IN IF tok.kind = "tok_number"
       THEN [ok |-> TRUE, ast |-> NumberExprAST(tok.num), pos |-> p + 1]
       ELSE IF tok.kind = "tok_identifier"
       THEN [ok |-> TRUE, ast |-> VariableExprAST(tok.text), pos |-> p + 1]
       ELSE IF IsChar(tok, "(")
       THEN LET e == RefLevel(1, toks, p + 1)
            IN IF e.ok /\ IsChar(CurTok(toks, e.pos), ")")
               THEN [ok |-> TRUE, ast |-> e.ast, pos |-> e.pos + 1]
               ELSE [ok |-> FALSE, ast |-> NullAST, pos |-> p]
       ELSE [ok |-> FALSE, ast |-> NullAST, pos |-> p]

RefFold(lvl, acc, toks, p) ==
    LET tok == CurTok(toks, p)
    IN IF tok.kind = "char" /\ tok.text \in RefLevels[lvl]
       THEN LET r == RefLevel(lvl + 1, toks, p + 1)
            IN IF r.ok
               THEN RefFold(lvl, BinaryExprAST(tok.text, acc, r.ast), toks,
                            r.pos)
               ELSE r
       ELSE [ok |-> TRUE, ast |-> acc, pos |-> p]

RefLevel(lvl, toks, p) ==
    IF lvl > Len(RefLevels) THEN RefPrimary(toks, p)
    ELSE LET l == RefLevel(lvl + 1, toks, p)
         IN IF l.ok THEN RefFold(lvl, l.ast, toks, l.pos) ELSE l

RefParse(toks) == RefLevel(1, toks, 1)

\* C1: for every well-formed expression over operands, parentheses and
\* + - * <, ParseExpression succeeds, consumes the whole expression and
\* builds the tree of the reference parser (tighter operators bind first,
\* equal precedence groups to the left).
C1_PrecedenceClimbingMatchesReference ==
    last.op = "ParseExpression" =>
        /\ last.result.ok
        /\ last.result.pos = Len(input) + 1
        /\ RefParse(input).ok
        /\ RefParse(input).pos = Len(input) + 1
        /\ last.result.ast = RefParse(input).ast

\* 1-1-1 has been parsed to -(-(1,1),1).
C1_Witness ==
    /\ last.op = "ParseExpression"
    /\ input = <<Num1, TokChar("-"), Num1, TokChar("-"), Num1>>
    /\ last.result.ast =
          BinaryExprAST("-",
              BinaryExprAST("-", NumberExprAST(<<1, 0>>),
                            NumberExprAST(<<1, 0>>)),
              NumberExprAST(<<1, 0>>))

(***************************************************************************)
(* Prototype parsing from characters: the stream "f(" params ")" with the  *)
(* parameters joined by one separator, lexed by gettok and handed to       *)
(* ParsePrototype.                                                         *)
(***************************************************************************)
MaxParams == 3

ParamNames == {"a", "b"}
Separators == {<<" ">>, <<",">>, <<",", " ">>, <<>>}

ParamLists == UNION {[1..n -> ParamNames] : n \in 0..MaxParams}

RECURSIVE Join(_, _)
Join(ps, sep) ==
    IF Len(ps) = 0 THEN <<>>
    ELSE IF Len(ps) = 1 THEN <<ps[1]>>
    ELSE <<ps[1]>> \o sep \o Join(Tail(ps), sep)

ProtoStream(ps, sep) == <<"f", "(">> \o Join(ps, sep) \o <<")">>

InitProto ==
    /\ \E ps \in ParamLists, sep \in Separators :
          /\ chars = ProtoStream(ps, sep)
          /\ last = [op |-> "none", params |-> ps, sep |-> sep]
    /\ input = <<>>
    /\ pos = 1
    /\ TheModule = {}
    /\ NamedValues = {}
    /\ running = TRUE

\* The getNextToken() calls that turn stdin into the tokens the parser sees.
LexStep ==
    /\ running
    /\ last.op = "none"
    /\ input' = Lex(chars)
    /\ last' = [last EXCEPT !.op = "Lex"]
    /\ UNCHANGED <<chars, pos, TheModule, NamedValues, running>>

\* return ParsePrototype();
ParsePrototypeStep ==
    /\ running
    /\ last.op = "Lex"
    /\ LET r == ParsePrototype(input, pos)
       IN /\ last' = [op |-> "ParsePrototype", params |-> last.params,
                      sep |-> last.sep, result |-> r]
          /\ pos' = r.pos
    /\ running' = FALSE
    /\ UNCHANGED <<chars, input, TheModule, NamedValues>>

NextProto == LexStep \/ ParsePrototypeStep

SpecProto == InitProto /\ [][NextProto]_vars

HasComma(sep) == \E i \in 1..Len(sep) : sep[i] = ","

\* C8 as claimed: a parameter list written with commas parses to the same
\* Prototype as the same identifiers separated only by whitespace.
C8_CommaListParsesLikeSpaceList ==
    (last.op = "ParsePrototype" /\ HasComma(last.sep)) =>
        LET r == ParsePrototype(Lex(ProtoStream(last.params, <<" ">>)), 1)
        IN /\ last.result.ok = r.ok
           /\ last.result.ast = r.ast

\* C8 amended: identifiers separated by whitespace alone parse to the
\* Prototype with exactly those parameters, and a list of two or more
\* identifiers with commas between them is rejected at the first comma with
\* "Expected ')' in prototype".
C8_SpaceListAcceptedCommaRejected ==
    last.op = "ParsePrototype" =>
        /\ last.sep = <<" ">> =>
              /\ last.result.ok
              /\ last.result.ast = PrototypeAST("f", last.params)
              /\ last.result.pos = Len(input) + 1
        /\ (HasComma(last.sep) /\ Len(last.params) >= 2) =>
              /\ ~last.result.ok
              /\ last.result.err = "Expected ')' in prototype"
              /\ IsChar(CurTok(input, last.result.pos), ",")

\* f(a,b) has been lexed and rejected.
C8_Witness ==
    /\ last.op = "ParsePrototype"
    /\ chars = <<"f", "(", "a", ",", "b", ")">>
    /\ ~last.result.ok

(***************************************************************************)
(* Code generation.  TheModule is the set of the named functions of the    *)
(* module, each [name, nargs, body]: body is FALSE for a declaration       *)
(* (Function::empty()) and TRUE once the function has a basic block.  The  *)
(* nameless wrapper functions of top-level expressions are not entered in  *)
(* the module's symbol table, so getFunction never sees them and they are  *)
(* left out.  NamedValues is the set of names mapped to a non-null value.  *)
(*                                                                         *)
(* Lowering an expression returns [ok, events]: ok = FALSE is the nullptr  *)
(* return, events the Codegen calls in the order they happen, each node    *)
(* named by its path from the root (child indices): "Codegen" when the     *)
(* node's Codegen is entered, then "Value" or "nullptr" when it returns,   *)
(* with the message ErrorV printed, if any.                                *)
(***************************************************************************)
Event(path, what, msg) == [path |-> path, what |-> what, msg |-> msg]
Enter(path) == <<Event(path, "Codegen", "")>>
Value(path, evs) == [ok |-> TRUE, events |-> evs \o <<Event(path, "Value", "")>>]
ErrorV(path, evs, msg) ==
    [ok |-> FALSE, events |-> evs \o <<Event(path, "nullptr", msg)>>]

\* TheModule->getFunction(Name)
HasFunction(M, Name) == \E F \in M : F.name = Name
getFunction(M, Name) == CHOOSE F \in M : F.name = Name

RECURSIVE ExprCodegen(_, _, _, _)
RECURSIVE ArgsCodegen(_, _, _, _, _, _)

\* Value *V = NamedValues[Name]; if (!V) return ErrorV(...); return V;
VariableCodegen(ast, M, NV, path) ==
    IF ast.name \notin NV
    THEN ErrorV(path, Enter(path), "Unkown variable name")
    ELSE Value(path, Enter(path))

\* A BinaryExprAST::Codegen that returns as soon as the left operand is null.
BinaryCodegenLeftFirst(ast, M, NV, path) ==
    LET L == ExprCodegen(ast.kids[1], M, NV, Append(path, 1))
        R == ExprCodegen(ast.kids[2], M, NV, Append(path, 2))
    IN IF ~L.ok THEN ErrorV(path, Enter(path) \o L.events, "")
       ELSE IF ~R.ok THEN ErrorV(path, Enter(path) \o L.events \o R.events, "")
       ELSE IF ast.name \in {"+", "-", "*", "<"}
       THEN Value(path, Enter(path) \o L.events \o R.events)
       ELSE ErrorV(path, Enter(path) \o L.events \o R.events,
                   "invalid binary operator")

\* Value *L = LHS->Codegen(); Value *R = RHS->Codegen();
\* if (!L || !R) return nullptr; switch (Op) ...
BinaryCodegen(ast, M, NV, path) ==
    LET L == ExprCodegen(ast.kids[1], M, NV, Append(path, 1))
        R == ExprCodegen(ast.kids[2], M, NV, Append(path, 2))
        evs == Enter(path) \o L.events \o R.events
    IN IF ~L.ok \/ ~R.ok THEN ErrorV(path, evs, "")
       ELSE IF ast.name \in {"+", "-", "*", "<"} THEN Value(path, evs)
       ELSE ErrorV(path, evs, "invalid binary operator")

\* for (i = 0; i != e; i++) { ArgsV.push_back(Args[i]->Codegen());
\*                            if (!ArgsV.back()) return nullptr; }
ArgsCodegen(Args, i, M, NV, path, evs) ==
    IF i > Len(Args) THEN [ok |-> TRUE, events |-> evs]
    ELSE LET A == ExprCodegen(Args[i], M, NV, Append(path, i))
         IN IF ~A.ok THEN [ok |-> FALSE, events |-> evs \o A.events]
            ELSE ArgsCodegen(Args, i + 1, M, NV, path, evs \o A.events)

\* A CallExprAST::Codegen without the arg_size() check.
CallCodegenNoArityCheck(ast, M, NV, path) ==
    IF ~HasFunction(M, ast.name)
    THEN ErrorV(path, Enter(path), "unkown function referenced")
    ELSE LET A == ArgsCodegen(ast.kids, 1, M, NV, path, Enter(path))
         IN IF ~A.ok THEN ErrorV(path, A.events, "")
            ELSE Value(path, A.events)

CallCodegen(ast, M, NV, path) ==
    IF ~HasFunction(M, ast.name)
    THEN ErrorV(path, Enter(path), "unkown function referenced")
    ELSE IF getFunction(M, ast.name).nargs # Len(ast.kids)
    THEN ErrorV(path, Enter(path), "Incorrect # argmuments passed")
    ELSE LET A == ArgsCodegen(ast.kids, 1, M, NV, path, Enter(path))
         IN IF ~A.ok THEN ErrorV(path, A.events, "")
            ELSE Value(path, A.events)

\* The virtual Codegen() of an expression node.
ExprCodegen(ast, M, NV, path) ==
    CASE ast.node = "Number" -> Value(path, Enter(path))
      [] ast.node = "Variable" -> VariableCodegen(ast, M, NV, path)
      [] ast.node = "Binary" -> BinaryCodegen(ast, M, NV, path)
      [] ast.node = "Call" -> CallCodegen(ast, M, NV, path)

ArgSet(Args) == {Args[i] : i \in 1..Len(Args)}

\* A PrototypeAST::Codegen without the F->empty() test.
PrototypeCodegenNoBodyCheck(Proto, M, NV) ==
    IF Proto.name # "" /\ HasFunction(M, Proto.name)
    THEN IF getFunction(M, Proto.name).nargs # Len(Proto.args)
         THEN [ok |-> FALSE, M |-> M, NV |-> NV,
               err |-> "redefinition of function with different # args"]
         ELSE [ok |-> TRUE, M |-> M, NV |-> NV \cup ArgSet(Proto.args),
               err |-> ""]
    ELSE [ok |-> TRUE,
          M |-> IF Proto.name = "" THEN M
                ELSE M \cup {[name |-> Proto.name, nargs |-> Len(Proto.args),
                              body |-> FALSE]},
          NV |-> NV \cup ArgSet(Proto.args),
          err |-> ""]

\* A PrototypeAST::Codegen without the arg_size() comparison.
PrototypeCodegenNoArityCheck(Proto, M, NV) ==
    IF Proto.name # "" /\ HasFunction(M, Proto.name)
    THEN IF getFunction(M, Proto.name).body
         THEN [ok |-> FALSE, M |-> M, NV |-> NV,
               err |-> "redefinition of function"]
         ELSE [ok |-> TRUE, M |-> M, NV |-> NV \cup ArgSet(Proto.args),
               err |-> ""]
    ELSE [ok |-> TRUE,
          M |-> IF Proto.name = "" THEN M
                ELSE M \cup {[name |-> Proto.name, nargs |-> Len(Proto.args),
                              body |-> FALSE]},
          NV |-> NV \cup ArgSet(Proto.args),
          err |-> ""]

\* PrototypeAST::Codegen: [ok, M, NV, err], the module and NamedValues after
\* the call.  Function::Create under a name the module already holds gives
\* the new function another name; it is erased again and the function of
\* that name is checked instead.
PrototypeCodegen(Proto, M, NV) ==
    IF Proto.name # "" /\ HasFunction(M, Proto.name)
    THEN IF getFunction(M, Proto.name).body
         THEN [ok |-> FALSE, M |-> M, NV |-> NV,
               err |-> "redefinition of function"]
         ELSE IF getFunction(M, Proto.name).nargs # Len(Proto.args)
         THEN [ok |-> FALSE, M |-> M, NV |-> NV,
               err |-> "redefinition of function with different # args"]
         ELSE [ok |-> TRUE, M |-> M, NV |-> NV \cup ArgSet(Proto.args),
               err |-> ""]
    ELSE [ok |-> TRUE,
          M |-> IF Proto.name = "" THEN M
                ELSE M \cup {[name |-> Proto.name, nargs |-> Len(Proto.args),
                              body |-> FALSE]},
          NV |-> NV \cup ArgSet(Proto.args),
          err |-> ""]

\* BasicBlock::Create(..., TheFunction): the function is no longer empty.
WithBody(M, Name) ==
    {IF F.name = Name THEN [F EXCEPT !.body = TRUE] ELSE F : F \in M}

\* TheFunction->eraseFromParent()
eraseFromParent(M, Name) == {F \in M : F.name # Name}

KeptNamedValues(NV) == NV

\* NamedValues.clear() at the head of FunctionAST::Codegen.
ClearedNamedValues(NV) == {}

\* FunctionAST::Codegen: [ok, M, NV, err, events].
FunctionCodegen(Fn, M, NV) ==
    LET P == PrototypeCodegen(Fn.proto, M, ClearedNamedValues(NV))
    IN IF ~P.ok
       THEN [ok |-> FALSE, M |-> P.M, NV |-> P.NV, err |-> P.err,
             events |-> <<>>]
       ELSE LET MB == WithBody(P.M, Fn.proto.name)
                B == ExprCodegen(Fn.body, MB, P.NV, <<>>)
            IN IF B.ok
               THEN [ok |-> TRUE, M |-> MB, NV |-> P.NV, err |-> "",
                     events |-> B.events]
               ELSE [ok |-> FALSE, M |-> eraseFromParent(MB, Fn.proto.name),
                     NV |-> P.NV, err |-> "", events |-> B.events]

(***************************************************************************)
(* Top-level handlers and the driver loop.                                 *)
(***************************************************************************)
\* A handler that discards a token after any failure, parse or Codegen.
ResumeSkipOnAnyFailure(toks, parse, cgOk) ==
    IF parse.ok /\ cgOk THEN [pos |-> parse.pos, discarded |-> 0]
    ELSE [pos |-> getNextToken(toks, parse.pos), discarded |-> 1]

\* A handler whose else branch calls getNextToken() twice.
ResumeSkipTwo(toks, parse, cgOk) ==
    IF parse.ok THEN [pos |-> parse.pos, discarded |-> 0]
    ELSE [pos |-> getNextToken(toks, getNextToken(toks, parse.pos)),
          discarded |-> 2]

\* A handler whose else branch lacks the getNextToken() call.
ResumeNoSkip(toks, parse, cgOk) == [pos |-> parse.pos, discarded |-> 0]

\* Where a handler leaves CurTok and how many getNextToken() calls it made
\* itself: none in the if (auto AST = Parse...()) branch, whatever Codegen
\* returned; one in the else branch.
Resume(toks, parse, cgOk) ==
    IF parse.ok THEN [pos |-> parse.pos, discarded |-> 0]
    ELSE [pos |-> getNextToken(toks, parse.pos), discarded |-> 1]

Handlers == {"HandleDefinition", "HandleExtern", "HandleTopLevelExpression"}

\* The body shared by the three handlers: parse is what Parse...() returned;
\* on success the AST's Codegen() runs against TheModule and NamedValues.
\* The result is the module, the named values and the position of CurTok
\* when the handler returns, and the record of what it did.
HandleResult(op, parse) ==
    LET cg == IF ~parse.ok
              THEN [ok |-> FALSE, M |-> TheModule, NV |-> NamedValues,
                    err |-> "", events |-> <<>>]
              ELSE IF op = "HandleExtern"
              THEN LET P == PrototypeCodegen(parse.ast, TheModule, NamedValues)
                   IN [ok |-> P.ok, M |-> P.M, NV |-> P.NV, err |-> P.err,
                       events |-> <<>>]
              ELSE FunctionCodegen(parse.ast, TheModule, NamedValues)
        res == Resume(input, parse, cg.ok)
    IN [M |-> cg.M,
        NV |-> cg.NV,
        pos |-> res.pos,
        last |-> [op |-> op,
                  start |-> pos,
                  parseOk |-> parse.ok,
                  parseErr |-> parse.err,
                  parsePos |-> parse.pos,
                  proto |-> IF op = "HandleExtern" THEN parse.ast
                            ELSE parse.ast.proto,
                  body |-> IF op = "HandleExtern" THEN NullAST
                           ELSE parse.ast.body,
                  ok |-> cg.ok,
                  err |-> cg.err,
                  events |-> cg.events,
                  pre |-> TheModule,
                  preNV |-> NamedValues,
                  discarded |-> res.discarded,
                  resume |-> res.pos]]

Handle(op, parse) ==
    LET r == HandleResult(op, parse)
    IN /\ TheModule' = r.M
       /\ NamedValues' = r.NV
       /\ pos' = r.pos
       /\ last' = r.last
       /\ UNCHANGED <<chars, input, running>>

\* case tok_eof: return;
MainLoopEof ==
    /\ running
    /\ CurTok(input, pos) = TokEof
    /\ running' = FALSE
    /\ UNCHANGED <<chars, input, pos, TheModule, NamedValues, last>>

\* case ';': getNextToken(); break;
MainLoopSemicolon ==
    /\ running
    /\ IsChar(CurTok(input, pos), ";")
    /\ pos' = getNextToken(input, pos)
    /\ UNCHANGED <<chars, input, TheModule, NamedValues, last, running>>

\* case tok_def: HandleDefinition(); break;
HandleDefinition ==
    /\ running
    /\ CurTok(input, pos) = TokDef
    /\ Handle("HandleDefinition", ParseDefinition(input, pos))

\* case tok_extern: HandleExtern(); break;
HandleExtern ==
    /\ running
    /\ CurTok(input, pos) = TokExtern
    /\ Handle("HandleExtern", ParseExtern(input, pos))

\* default: HandleTopLevelExpression(); break;
HandleTopLevelExpression ==
    /\ running
    /\ CurTok(input, pos) # TokEof
    /\ ~IsChar(CurTok(input, pos), ";")
    /\ CurTok(input, pos) # TokDef
    /\ CurTok(input, pos) # TokExtern
    /\ Handle("HandleTopLevelExpression", ParseTopLevelExpr(input, pos))

(***************************************************************************)
(* The driver on a token stream: the input is a concatenation of at most   *)
(* MaxItems pieces of constructs, so that complete, unfinished and         *)
(* misplaced constructs all occur.                                         *)
(***************************************************************************)
MaxItems == 4

IdF == TokIdentifier("f")
IdA == TokIdentifier("a")
Items ==
    { <<TokDef>>,
      <<TokExtern>>,
      <<IdF, TokChar("("), TokChar(")")>>,
      <<IdF, TokChar("("), IdA, TokChar(")")>>,
      <<IdF, TokChar("("), IdA>>,
      <<Num1>>,
      <<IdA>>,
      <<Num1, TokChar("+"), Num1>>,
      <<TokChar(";")>>,
      <<TokChar("+")>> }

RECURSIVE Concats(_)
Concats(n) ==
    IF n = 0 THEN {<<>>}
    ELSE {<<>>} \cup {i \o c : i \in Items, c \in Concats(n - 1)}

\* main(): getNextToken() primes CurTok, the module is new and empty.
Init ==
    /\ chars = <<>>
    /\ input \in Concats(MaxItems)
    /\ pos = 1
    /\ TheModule = {}
    /\ NamedValues = {}
    /\ last = NoOp
    /\ running = TRUE

Next ==
    \/ MainLoopEof
    \/ MainLoopSemicolon
    \/ HandleDefinition
    \/ HandleExtern
    \/ HandleTopLevelExpression

Spec == Init /\ [][Next]_vars

\* C2 as claimed: whenever handling a top-level construct fails, in the
\* parse stage or in the lowering stage, exactly one token is discarded
\* before the loop resumes.
C2_OneTokenDiscardedOnAnyFailure ==
    (last.op \in Handlers /\ (~last.parseOk \/ ~last.ok)) =>
        /\ last.discarded = 1
        /\ last.resume = getNextToken(input, last.parsePos)

\* C2 amended: a handler whose parse fails discards exactly one token (one
\* getNextToken() past the token the parser stopped at); a handler whose
\* parse succeeds discards none, also when Codegen fails, and the loop
\* resumes at the first token after the construct.
C2_TokenDiscardedOnParseFailureOnly ==
    last.op \in Handlers =>
        /\ ~last.parseOk =>
              /\ last.discarded = 1
              /\ last.resume = getNextToken(input, last.parsePos)
        /\ last.parseOk =>
              /\ last.discarded = 0
              /\ last.resume = last.parsePos

\* A definition that parsed has failed in Codegen, with CurTok left on the
\* token after it, which is not the end of the input.
C2_Witness ==
    /\ last.op = "HandleDefinition"
    /\ last.parseOk
    /\ ~last.ok
    /\ last.discarded = 0
    /\ pos = last.parsePos
    /\ pos <= Len(input)

\* def, a name, '(' and zero or more parameter names, with no ')':
\* the first k tokens of toks.
UnclosedDefinition(toks, k) ==
    /\ 3 <= k /\ k <= Len(toks)
    /\ toks[1] = TokDef
    /\ toks[2].kind = "tok_identifier"
    /\ IsChar(toks[3], "(")
    /\ \A i \in 4..k : toks[i].kind = "tok_identifier"

\* toks from index k to the end is one expression, and a top-level
\* expression of it lowers in the empty module.
ValidTopLevelExprFrom(toks, k) ==
    /\ k <= Len(toks)
    /\ RefParse(SubSeq(toks, k, Len(toks))).ok
    /\ RefParse(SubSeq(toks, k, Len(toks))).pos = Len(toks) - k + 2
    /\ ExprCodegen(RefParse(SubSeq(toks, k, Len(toks))).ast, {}, {}, <<>>).ok

\* The last handler run took the tokens from index k to the end as one
\* top-level expression and lowered it.
ProcessedWholeFrom(k) ==
    /\ last.op = "HandleTopLevelExpression"
    /\ last.start = k
    /\ last.parseOk
    /\ last.ok
    /\ last.body = RefParse(SubSeq(input, k, Len(input))).ast
    /\ pos = Len(input) + 1

\* C3 as claimed: after a definition whose prototype has no closing
\* parenthesis, a valid top-level expression that follows it is parsed and
\* lowered as that whole expression.
C3_ExpressionAfterUnclosedDefinitionProcessedWhole ==
    \A k \in 3..Len(input) :
        (/\ UnclosedDefinition(input, k)
         /\ ValidTopLevelExprFrom(input, k + 1)
         /\ ~running)
            => ProcessedWholeFrom(k + 1)

\* The token the prototype of an unclosed definition stops at: neither a
\* parameter name nor ')'.
StopsPrototype(tok) == tok.kind # "tok_identifier" /\ ~IsChar(tok, ")")

\* C3 amended: after such a definition the loop keeps running (it stops
\* only at the end of the input); the handler discards the token at which
\* the prototype stopped, and a valid top-level expression that starts after
\* that discarded token is parsed and lowered as that whole expression.
C3_ExpressionAfterDiscardedTokenProcessedWhole ==
    /\ ~running => CurTok(input, pos) = TokEof
    /\ \A k \in 3..Len(input) :
          (/\ UnclosedDefinition(input, k)
           /\ k + 1 <= Len(input)
           /\ StopsPrototype(input[k + 1])
           /\ ValidTopLevelExprFrom(input, k + 2)
           /\ ~running)
              => ProcessedWholeFrom(k + 2)

\* def f(a ; 1+1 has been run to the end of the input.
C3_Witness ==
    /\ input = <<TokDef, IdF, TokChar("("), IdA, TokChar(";"),
                 Num1, TokChar("+"), Num1>>
    /\ ~running
    /\ ProcessedWholeFrom(6)

(***************************************************************************)
(* Code generation on its own: the handlers from the point where the parse *)
(* has returned an AST, for every extern, definition and top-level         *)
(* expression built from two function names, two parameter names, at most  *)
(* MaxArity parameters or call arguments, and bodies of nesting depth two. *)
(***************************************************************************)
MaxArity == 2

FnNames == {"f", "g"}
ArgLists == UNION {[1..n -> ParamNames] : n \in 0..MaxArity}
Protos == {PrototypeAST(n, a) : n \in FnNames, a \in ArgLists}

Leaves == {NumberExprAST(<<1, 0>>)} \cup {VariableExprAST(n) : n \in ParamNames}
CallArgs == {NumberExprAST(<<1, 0>>), VariableExprAST("a")}
Calls ==
    {CallExprAST(n, a) :
        n \in FnNames, a \in UNION {[1..k -> CallArgs] : k \in 0..MaxArity}}
Operands == Leaves \cup {CallExprAST("g", <<>>)}
Binaries == {BinaryExprAST(op, l, r) : op \in {"+", "<"}, l \in Operands,
                                       r \in Operands}
Bodies == Leaves \cup Calls \cup Binaries

InitLower ==
    /\ chars = <<>>
    /\ input = <<>>
    /\ pos = 1
    /\ TheModule = {}
    /\ NamedValues = {}
    /\ last = NoOp
    /\ running = TRUE

\* HandleExtern after ParseExtern() returned a prototype.
ExternParsed ==
    /\ last = NoOp
    /\ \E P \in Protos : Handle("HandleExtern", ProtoParsed(P, pos))

\* HandleDefinition after ParseDefinition() returned a function.
DefinitionParsed ==
    /\ last = NoOp
    /\ \E P \in Protos, B \in Bodies :
          Handle("HandleDefinition",
                 [ok |-> TRUE, ast |-> FunctionAST(P, B), pos |-> pos,
                  err |-> ""])

\* HandleTopLevelExpression after ParseTopLevelExpr() returned the wrapper.
TopLevelExprParsed ==
    /\ last = NoOp
    /\ \E B \in Bodies :
          Handle("HandleTopLevelExpression",
                 [ok |-> TRUE, ast |-> FunctionAST(PrototypeAST("", <<>>), B),
                  pos |-> pos, err |-> ""])

\* The handler has returned to MainLoop, which prompts for the next
\* construct; what the handler did is no longer observed.
Prompt ==
    /\ last # NoOp
    /\ last' = NoOp
    /\ UNCHANGED <<chars, input, pos, TheModule, NamedValues, running>>

NextLower ==
    ExternParsed \/ DefinitionParsed \/ TopLevelExprParsed \/ Prompt

SpecLower == InitLower /\ [][NextLower]_vars

(***************************************************************************)
(* Reading the observation of a handler.                                   *)
(***************************************************************************)
RECURSIVE NodeAt(_, _)
NodeAt(ast, path) ==
    IF path = <<>> THEN ast ELSE NodeAt(ast.kids[Head(path)], Tail(path))

\* The functions of module M named n.
Named(M, n) == {F \in M : F.name = n}

\* The index in the events of the Codegen call on the node at path, 0 if
\* the node's Codegen was never called.
CodegenIndex(evs, path) ==
    IF \E i \in 1..Len(evs) : evs[i].path = path /\ evs[i].what = "Codegen"
    THEN CHOOSE i \in 1..Len(evs) :
             evs[i].path = path /\ evs[i].what = "Codegen"
    ELSE 0

\* The event of the return from Codegen of the node at path.
ReturnOf(evs, path) ==
    CHOOSE e \in {evs[i] : i \in 1..Len(evs)} :
        e.path = path /\ e.what \in {"Value", "nullptr"}

\* The paths of the nodes of the given class whose Codegen was called.
Lowered(class) ==
    {last.events[i].path : i \in
        {j \in 1..Len(last.events) :
            /\ last.events[j].what = "Codegen"
            /\ NodeAt(last.body, last.events[j].path).node = class}}

\* The handler lowered a function (a definition or a top-level expression)
\* and got as far as the body.
BodyLowered ==
    /\ last.op \in {"HandleDefinition", "HandleTopLevelExpression"}
    /\ last.parseOk
    /\ last.events # <<>>

\* C4: an extern for a name registered as a bodiless declaration with the
\* same parameter count succeeds, every time, and leaves exactly one function
\* of that name, with that parameter count; with a different parameter count
\* it is an error and the registered declaration stays.
C4_ExternRedeclaration ==
    (last.op = "HandleExtern" /\ last.parseOk) =>
        \A F \in Named(last.pre, last.proto.name) :
            ~F.body =>
                /\ F.nargs = Len(last.proto.args) =>
                      /\ last.ok
                      /\ Named(TheModule, last.proto.name) = {F}
                /\ F.nargs # Len(last.proto.args) =>
                      /\ ~last.ok
                      /\ last.err =
                            "redefinition of function with different # args"
                      /\ Named(TheModule, last.proto.name) = {F}

\* extern f(a) has been lowered with f already declared with one parameter
\* by an earlier extern.
C4_Witness ==
    /\ last.op = "HandleExtern"
    /\ last.proto = PrototypeAST("f", <<"a">>)
    /\ [name |-> "f", nargs |-> 1, body |-> FALSE] \in last.pre
    /\ last.ok
    /\ Named(TheModule, "f") = {[name |-> "f", nargs |-> 1, body |-> FALSE]}

RedefinitionErrors ==
    {"redefinition of function",
     "redefinition of function with different # args"}

\* C5: a definition whose name is registered fails with a redefinition
\* error, leaving the module as it was, when the registered function has a
\* different parameter count or already has a body; over a bodiless
\* declaration with the same parameter count the prototype is accepted, and
\* the definition succeeds, giving that function its body, when its body
\* expression lowers.
C5_DefinitionOverRegisteredName ==
    (last.op = "HandleDefinition" /\ last.parseOk) =>
        \A F \in Named(last.pre, last.proto.name) :
            /\ (F.body \/ F.nargs # Len(last.proto.args)) =>
                  /\ ~last.ok
                  /\ last.err \in RedefinitionErrors
                  /\ last.events = <<>>
                  /\ TheModule = last.pre
            /\ (~F.body /\ F.nargs = Len(last.proto.args)) =>
                  /\ last.err = ""
                  /\ last.events # <<>>
                  /\ last.ok = (ReturnOf(last.events, <<>>).what = "Value")
                  /\ last.ok =>
                        Named(TheModule, last.proto.name) =
                            {[F EXCEPT !.body = TRUE]}

\* def f(a) a has been lowered over the declaration extern f(a) left.
C5_Witness ==
    /\ last.op = "HandleDefinition"
    /\ last.proto = PrototypeAST("f", <<"a">>)
    /\ [name |-> "f", nargs |-> 1, body |-> FALSE] \in last.pre
    /\ last.ok
    /\ [name |-> "f", nargs |-> 1, body |-> TRUE] \in TheModule

\* C6: inside a function a Variable node lowers to a value exactly when its
\* name is one of that function's own parameters; any other name, also one
\* bound by an earlier definition or extern, is "Unkown variable name".
C6_VariableScopeIsOwnParameters ==
    BodyLowered =>
        \A p \in Lowered("Variable") :
            LET r == ReturnOf(last.events, p)
                n == NodeAt(last.body, p).name
            IN /\ (r.what = "Value") = (n \in ArgSet(last.proto.args))
               /\ r.what = "nullptr" => r.msg = "Unkown variable name"

\* With b bound in NamedValues by an earlier prototype, def ...(a) b has
\* failed on b.
C6_Witness ==
    /\ BodyLowered
    /\ last.op = "HandleDefinition"
    /\ "b" \in last.preNV
    /\ last.proto.args = <<"a">>
    /\ last.body = VariableExprAST("b")
    /\ ~last.ok
    /\ ReturnOf(last.events, <<>>).msg = "Unkown variable name"

\* The parameter count of the function a call to n finds while the body of
\* the handler's function is lowered: -1 when no function has that name.
\* The function being defined is itself registered by then.
CalleeArity(n) ==
    IF n = last.proto.name THEN Len(last.proto.args)
    ELSE IF Named(last.pre, n) = {} THEN -1
    ELSE (CHOOSE F \in Named(last.pre, n) : TRUE).nargs

ArgLowered(p) ==
    \E i \in 1..Len(last.events) :
        /\ last.events[i].what = "Codegen"
        /\ Len(last.events[i].path) = Len(p) + 1
        /\ SubSeq(last.events[i].path, 1, Len(p)) = p

\* C7: a Call node whose callee is not registered fails with "unkown
\* function referenced"; one whose callee is registered with another
\* parameter count fails with the different error "Incorrect # argmuments
\* passed"; arguments are lowered only when the counts are equal, and then
\* the first argument, if there is one, is lowered.
C7_CallChecksCalleeThenArity ==
    BodyLowered =>
        \A p \in Lowered("Call") :
            LET c == NodeAt(last.body, p)
                r == ReturnOf(last.events, p)
            IN /\ CalleeArity(c.name) = -1 =>
                    /\ r.what = "nullptr"
                    /\ r.msg = "unkown function referenced"
                    /\ ~ArgLowered(p)
               /\ (CalleeArity(c.name) # -1
                   /\ CalleeArity(c.name) # Len(c.kids)) =>
                    /\ r.what = "nullptr"
                    /\ r.msg = "Incorrect # argmuments passed"
                    /\ ~ArgLowered(p)
               /\ CalleeArity(c.name) = Len(c.kids) =>
                    /\ Len(c.kids) > 0 => ArgLowered(p)
                    /\ r.msg = ""

\* A call g(1) has failed on the argument count with g registered without
\* parameters.
C7_Witness ==
    /\ BodyLowered
    /\ last.body = CallExprAST("g", <<NumberExprAST(<<1, 0>>)>>)
    /\ [name |-> "g", nargs |-> 0, body |-> FALSE] \in last.pre
    /\ ReturnOf(last.events, <<>>).msg = "Incorrect # argmuments passed"
    /\ ~ArgLowered(<<>>)

\* C9 as claimed: the left operand of a BinaryOp is lowered before the
\* right one, and when the left operand fails the right operand is never
\* lowered.
C9_RightOperandSkippedWhenLeftFails ==
    BodyLowered =>
        \A p \in Lowered("Binary") :
            /\ CodegenIndex(last.events, Append(p, 1)) > 0
            /\ ReturnOf(last.events, Append(p, 1)).what = "nullptr" =>
                  CodegenIndex(last.events, Append(p, 2)) = 0

\* C9 amended: the left operand is lowered before the right one, and the
\* right operand is lowered whether or not the left one failed; the BinaryOp
\* fails, without a message of its own, when either operand failed.
C9_BothOperandsLoweredLeftFirst ==
    BodyLowered =>
        \A p \in Lowered("Binary") :
            LET l == Append(p, 1)
                r == Append(p, 2)
            IN /\ CodegenIndex(last.events, l) > 0
               /\ CodegenIndex(last.events, r) > CodegenIndex(last.events, l)
               /\ (ReturnOf(last.events, p).what = "nullptr") =
                     (\/ ReturnOf(last.events, l).what = "nullptr"
                      \/ ReturnOf(last.events, r).what = "nullptr")
               /\ ReturnOf(last.events, p).msg = ""

\* b + a has been lowered in a function whose only parameter is a: the left
\* operand failed and the right operand was lowered after it.
C9_Witness ==
    /\ BodyLowered
    /\ last.proto.args = <<"a">>
    /\ last.body = BinaryExprAST("+", VariableExprAST("b"),
                                 VariableExprAST("a"))
    /\ ReturnOf(last.events, <<1>>).what = "nullptr"
    /\ ReturnOf(last.events, <<2>>).what = "Value"
    /\ ~last.ok

\* C10 as claimed: when the body of a definition fails to lower, every
\* function registered before the definition, a bodiless declaration of the
\* same name included, is still registered with the same parameter count.
C10_FailedDefinitionKeepsEarlierSignatures ==
    (/\ last.op = "HandleDefinition"
     /\ BodyLowered
     /\ ~last.ok) =>
        \A F \in last.pre :
            \E G \in TheModule : G.name = F.name /\ G.nargs = F.nargs

(***************************************************************************)
(* The driver of lexer_parser_ast.cpp, the parse-only version of the       *)
(* program.  Its parser functions are those above; its handlers only parse *)
(* and report.  The definitions of that file carry the suffix Ast.         *)
(***************************************************************************)
\* static int CurTok; is zero until the first getNextToken(), and main()
\* enters MainLoop() without calling it: the first CurTok is the character 0.
ZeroTok == TokChar("NUL")

\* ParseDefinition() of lexer_parser_ast.cpp has no return statement after
\* if (auto E = ParseExpression()): when the body fails to parse, control
\* flows off the end of the function and the returned pointer is
\* indeterminate; ub is whether it tests true.
ParseDefinitionAst(toks, p, ub) ==
    LET Proto == ParsePrototype(toks, getNextToken(toks, p))
    IN IF ~Proto.ok
       THEN [ok |-> FALSE, ast |-> NullFunction, pos |-> Proto.pos,
             err |-> Proto.err]
       ELSE LET E == ParseExpression(toks, Proto.pos)
            IN IF E.ok
               THEN [ok |-> TRUE, ast |-> FunctionAST(Proto.ast, E.ast),
                     pos |-> E.pos, err |-> ""]
               ELSE [ok |-> ub, ast |-> NullFunction, pos |-> E.pos,
                     err |-> E.err]

\* if (Parse...()) fprintf(...); else getNextToken();  -- the index of CurTok
\* when the handler returns.
ResumeAst(toks, parse) ==
    IF parse.ok THEN parse.pos ELSE getNextToken(toks, parse.pos)

HandleDefinitionAst(toks, p, ub) ==
    ResumeAst(toks, ParseDefinitionAst(toks, p, ub))
HandleExternAst(toks, p) == ResumeAst(toks, ParseExtern(toks, p))
HandleTopLevelExpressionAst(toks, p) ==
    ResumeAst(toks, ParseTopLevelExpr(toks, p))

\* What one iteration of the loop did: the token index it started at, the
\* handlers it called, in order, and the index it left CurTok at.
Iteration(ran, p) ==
    [op |-> "MainLoop", start |-> pos, ran |-> ran, resume |-> p]

\* case tok_eof: return;
MainLoopEofAst ==
    /\ running
    /\ CurTok(input, pos) = TokEof
    /\ running' = FALSE
    /\ last' = Iteration(<<>>, pos)
    /\ UNCHANGED <<chars, input, pos, TheModule, NamedValues>>

\* case ';': getNextToken(); break;
MainLoopSemicolonAst ==
    /\ running
    /\ IsChar(CurTok(input, pos), ";")
    /\ pos' = getNextToken(input, pos)
    /\ last' = Iteration(<<>>, getNextToken(input, pos))
    /\ UNCHANGED <<chars, input, TheModule, NamedValues, running>>

\* case tok_def: HandleDefinition();  -- no break: control falls through
\* case tok_extern: and default:.
MainLoopDefAst ==
    /\ running
    /\ CurTok(input, pos) = TokDef
    /\ \E ub \in BOOLEAN :
          LET p1 == HandleDefinitionAst(input, pos, ub)
              p2 == HandleExternAst(input, p1)
              p3 == HandleTopLevelExpressionAst(input, p2)
          IN /\ pos' = p3
             /\ last' = Iteration(<<"HandleDefinition", "HandleExtern",
                                    "HandleTopLevelExpression">>, p3)
    /\ UNCHANGED <<chars, input, TheModule, NamedValues, running>>

\* case tok_extern: HandleExern();  -- no break: control falls through
\* default:.
MainLoopExternAst ==
    /\ running
    /\ CurTok(input, pos) = TokExtern
    /\ LET p1 == HandleExternAst(input, pos)
           p2 == HandleTopLevelExpressionAst(input, p1)
       IN /\ pos' = p2
          /\ last' = Iteration(<<"HandleExtern",
                                 "HandleTopLevelExpression">>, p2)
    /\ UNCHANGED <<chars, input, TheModule, NamedValues, running>>

\* default: HandleTopLevelExpression(); break;
MainLoopDefaultAst ==
    /\ running
    /\ CurTok(input, pos) # TokEof
    /\ ~IsChar(CurTok(input, pos), ";")
    /\ CurTok(input, pos) # TokDef
    /\ CurTok(input, pos) # TokExtern
    /\ LET p1 == HandleTopLevelExpressionAst(input, pos)
       IN /\ pos' = p1
          /\ last' = Iteration(<<"HandleTopLevelExpression">>, p1)
    /\ UNCHANGED <<chars, input, TheModule, NamedValues, running>>

\* main() of lexer_parser_ast.cpp: CurTok is 0 when MainLoop() starts, and
\* the tokens of the input follow it.
InitAst ==
    /\ chars = <<>>
    /\ input \in {<<ZeroTok>> \o c : c \in Concats(MaxItems)}
    /\ pos = 1
    /\ TheModule = {}
    /\ NamedValues = {}
    /\ last = NoOp
    /\ running = TRUE

NextAst ==
    \/ MainLoopEofAst
    \/ MainLoopSemicolonAst
    \/ MainLoopDefAst
    \/ MainLoopExternAst
    \/ MainLoopDefaultAst

SpecAst == InitAst /\ [][NextAst]_vars

\* The handlers a step of either driver has run: the handler named by the
\* record the step wrote, none when the step wrote none.
HandlersRun(l) ==
    IF l.op = "MainLoop" THEN l.ran
    ELSE IF l.op \in Handlers THEN <<l.op>>
    ELSE <<>>

StepRan == IF last' = last THEN <<>> ELSE HandlersRun(last')

\* C11: every iteration of MainLoop does exactly one thing, chosen by CurTok
\* alone: it returns on tok_eof (and only then), it consumes the token on
\* ';', it runs HandleDefinition alone on tok_def, HandleExtern alone on
\* tok_extern, and HandleTopLevelExpression alone on any other token.
C11_OneHandlerPerIteration ==
    [][LET t == CurTok(input, pos)
       IN /\ running
          /\ ~running' <=> t = TokEof
          /\ t = TokEof => StepRan = <<>> /\ pos' = pos
          /\ IsChar(t, ";") =>
                StepRan = <<>> /\ pos' = getNextToken(input, pos)
          /\ t = TokDef => StepRan = <<"HandleDefinition">>
          /\ t = TokExtern => StepRan = <<"HandleExtern">>
          /\ (t # TokEof /\ ~IsChar(t, ";") /\ t # TokDef /\ t # TokExtern)
                => StepRan = <<"HandleTopLevelExpression">>]_vars

(***************************************************************************)
(* The driver on stdin: the input is a finite character stream, a          *)
(* concatenation of at most MaxChunks pieces of text, and CurTok takes the *)
(* values successive gettok() calls return, those after the first tok_eof  *)
(* included.                                                               *)
(***************************************************************************)
MaxChunks == 3

\* How many gettok() results after the tokens of the stream the token
\* sequence holds.
EofCalls == 3

Chunks ==
    { <<"d", "e", "f", " ">>,
      <<"e", "x", "t", "e", "r", "n", " ">>,
      <<"f", "(", "a", ")">>,
      <<"f", "(">>,
      <<"a">>,
      <<"1", ".", "5">>,
      <<"+">>,
      <<";">>,
      <<")">>,
      <<" ">>,
      <<"#", "x", "\n">>,
      <<"#">> }

RECURSIVE Streams(_)
Streams(n) ==
    IF n = 0 THEN {<<>>}
    ELSE {<<>>} \cup {c \o s : c \in Chunks, s \in Streams(n - 1)}

\* What n successive gettok() calls return, from lexer state lx on.
RECURSIVE gettokCalls(_, _, _)
gettokCalls(cs, lx, n) ==
    IF n = 0 THEN <<>>
    ELSE LET r == gettok(cs, lx)
         IN <<r.tok>> \o gettokCalls(cs, r.lx, n - 1)

\* The lexer state when gettok() has returned tok_eof for the first time.
RECURSIVE LexerAtEof(_, _)
LexerAtEof(cs, lx) ==
    LET r == gettok(cs, lx)
    IN IF r.tok = TokEof THEN r.lx ELSE LexerAtEof(cs, r.lx)

\* Before main() has read anything.
InitStdin ==
    /\ chars = <<>>
    /\ input = <<>>
    /\ pos = 1
    /\ TheModule = {}
    /\ NamedValues = {}
    /\ last = NoOp
    /\ running = TRUE

\* main() on a stream: getNextToken() primes CurTok with the first token,
\* then MainLoop() is entered.
Main ==
    /\ last = NoOp
    /\ \E cs \in Streams(MaxChunks) :
          /\ chars' = cs
          /\ input' = gettokCalls(cs, LexInit, Len(Lex(cs)) + EofCalls)
    /\ last' = [op |-> "main"]
    /\ UNCHANGED <<pos, TheModule, NamedValues, running>>

\* The iterations of MainLoop().
Loop == last # NoOp /\ Next

NextStdin ==
    \/ Main
    \/ Loop

\* The iterations of MainLoop() that call a handler.
HandlerCall ==
    last # NoOp /\ (HandleDefinition \/ HandleExtern \/ HandleTopLevelExpression)

\* Whether the handler MainLoop() calls in the current state changes the
\* state: ENABLED <<HandlerCall>>_vars, written out.  The switch reaches a
\* handler on every token but tok_eof and ';', and the handler changes the
\* state unless its result is the state it started in.
CanHandle ==
    /\ last # NoOp
    /\ running
    /\ CurTok(input, pos) # TokEof
    /\ ~IsChar(CurTok(input, pos), ";")
    /\ LET t == CurTok(input, pos)
           r == IF t = TokDef
                THEN HandleResult("HandleDefinition",
                                  ParseDefinition(input, pos))
                ELSE IF t = TokExtern
                THEN HandleResult("HandleExtern", ParseExtern(input, pos))
                ELSE HandleResult("HandleTopLevelExpression",
                                  ParseTopLevelExpr(input, pos))
       IN <<r.M, r.NV, r.pos, r.last>>
              # <<TheModule, NamedValues, pos, last>>

\* MainLoop() is one thread and every call it makes returns: an iteration
\* that can be taken is taken.  This is weak fairness of the cases of the
\* switch; for the handler calls it is WF_vars(HandlerCall) with
\* ENABLED <<HandlerCall>>_vars written out as CanHandle.
LoopFairness ==
    /\ WF_vars(last # NoOp /\ MainLoopEof)
    /\ WF_vars(last # NoOp /\ MainLoopSemicolon)
    /\ ([]<>(~CanHandle) \/ []<><<HandlerCall>>_vars)

SpecStdin == InitStdin /\ [][NextStdin]_vars /\ LoopFairness

\* gettok() called in the lexer state that returned tok_eof returns tok_eof
\* and leaves the lexer in that state; in the tokens read, nothing but
\* tok_eof follows a tok_eof.
EofSticky ==
    /\ LET lx == LexerAtEof(chars, LexInit)
       IN gettok(chars, lx) = [lx |-> lx, tok |-> TokEof]
    /\ \A i \in 1..Len(input) : \A j \in i..Len(input) :
          input[i] = TokEof => input[j] = TokEof

\* C12: on every finite character stream MainLoop(), once entered, returns,
\* and it returns with CurTok = tok_eof; every iteration that does not
\* return moves CurTok at least one token forward; once gettok() has
\* returned tok_eof every later call returns tok_eof, and the driver reads no
\* further than the EofCalls end-of-input tokens after the stream's own.
C12_DriverTerminatesAtEof ==
    /\ (last # NoOp) ~> ~running
    /\ [](~running => CurTok(input, pos) = TokEof)
    /\ [][(last # NoOp /\ running') => pos' > pos]_vars
    /\ [](last # NoOp => (EofSticky /\ pos <= Len(input)))

\* extern f(a)def has been run to the end: the declaration was registered,
\* the definition met tok_eof where its name should be, the handler discarded
\* that token and read a second tok_eof, and the loop has returned on it.
C12_Witness ==
    /\ chars = <<"e", "x", "t", "e", "r", "n", " ", "f", "(", "a", ")",
                 "d", "e", "f", " ">>
    /\ ~running
    /\ TheModule # {}
    /\ last.op = "HandleDefinition"
    /\ ~last.parseOk
    /\ last.discarded = 1
    /\ pos = Len(Lex(chars)) + 2
    /\ input[pos] = TokEof

====
